---- MODULE Spec2Model ----
(***************************************************************************)
(* Blogicum: the blog application of blogicum/blog/models.py and           *)
(* blogicum/blog/views.py as a state machine.  The state is the database   *)
(* (users, categories, locations, posts, comments), the clock, and the     *)
(* last request with the response it got.  One action per request handler  *)
(* of views.py, plus the ORM/admin operations whose on_delete rules are    *)
(* declared in models.py, plus the passage of time.                        *)
(***************************************************************************)
EXTENDS Integers, Sequences, FiniteSets

VARIABLES users, categories, locations, posts, comments,
          post_seq, comment_seq, now, last

vars == <<users, categories, locations, posts, comments,
          post_seq, comment_seq, now, last>>

\* The rows of the database: what a request can change.
store == <<users, categories, locations, posts, comments>>

----------------------------------------------------------------------------
\* Bounds of the model.
MaxPosts == 2
\* Posts created while every write handler is exercised (SpecWrite).
MaxWritePosts == 1
MaxComments == 1
MaxTime == 1

\* Paginator page size (num_pages=10, paginate_by = 10).
PageSize == 10

Null == 0
AnonymousUser == 0
UserIds == {1, 2}
CategoryIds == {1, 2}
LocationIds == {1, 2}
PostIds == 1..MaxPosts
CommentIds == 1..MaxComments
Times == 0..MaxTime
Texts == {"a", "b"}
\* A PostForm submission that fails validation, and form.is_valid().
Invalid == [errors |-> TRUE]
is_valid(form) == "errors" \notin DOMAIN form
\* A CommentForm whose required text is empty fails validation.
Blank == ""
\* The values of the ?page= query parameter: absent, or a number.
PageNumbers == {Null, 2}

\* Who can send a request: a logged-in existing user, or nobody.
Requesters == users \cup {AnonymousUser}

\* Valid PostForm submissions: every model field but the author.  category and
\* location are required choices among the existing rows.
PostForms(flags, dates) ==
    [is_published : flags, pub_date : dates,
     category : DOMAIN categories, location : locations]

\* Valid CommentForm submissions: the text.
CommentForms(texts) == texts

----------------------------------------------------------------------------
\* The three copies of the visibility filter in views.py.  A lookup through
\* category__is_published joins the category row, so a post whose category
\* is NULL matches no row.

\* Mutant: the date is compared with < where the code has pub_date__lte.
get_posts_with_comments_strict ==
    {p \in DOMAIN posts :
        /\ posts[p].is_published
        /\ posts[p].category \in DOMAIN categories
        /\ categories[posts[p].category]
        /\ posts[p].pub_date < now}

\* get_posts_with_comments(): the filter of the index and category listings.
get_posts_with_comments ==
    {p \in DOMAIN posts :
        /\ posts[p].is_published
        /\ posts[p].category \in DOMAIN categories
        /\ categories[posts[p].category]
        /\ posts[p].pub_date <= now}

\* Mutant: a post without a category passes the category test.
get_object_null_category(user, post_id) ==
    IF post_id \notin DOMAIN posts THEN Null
    ELSE IF user # posts[post_id].author
         THEN IF /\ posts[post_id].is_published
                 /\ \/ posts[post_id].category = Null
                    \/ /\ posts[post_id].category \in DOMAIN categories
                       /\ categories[posts[post_id].category]
                 /\ posts[post_id].pub_date <= now
              THEN post_id ELSE Null
         ELSE post_id

\* Mutant: the author's own request is filtered like anyone's.
get_object_no_owner(user, post_id) ==
    IF post_id \notin DOMAIN posts THEN Null
    ELSE IF /\ posts[post_id].is_published
            /\ posts[post_id].category \in DOMAIN categories
            /\ categories[posts[post_id].category]
            /\ posts[post_id].pub_date <= now
         THEN post_id ELSE Null

\* PostDetailView.get_object(): Null stands for Http404.
get_object(user, post_id) ==
    IF post_id \notin DOMAIN posts THEN Null
    ELSE IF user # posts[post_id].author
         THEN IF /\ posts[post_id].is_published
                 /\ posts[post_id].category \in DOMAIN categories
                 /\ categories[posts[post_id].category]
                 /\ posts[post_id].pub_date <= now
              THEN post_id ELSE Null
         ELSE post_id

\* Mutant: the visitor's branch forgets is_published=True.
profile_posts_unpublished(user, profile_user) ==
    IF user = profile_user
    THEN {p \in DOMAIN posts : posts[p].author = profile_user}
    ELSE {p \in DOMAIN posts :
            /\ posts[p].author = profile_user
            /\ posts[p].category \in DOMAIN categories
            /\ categories[posts[p].category]
            /\ posts[p].pub_date <= now}

\* profile(): the posts of profile_user that the requester is shown.
profile_posts(user, profile_user) ==
    IF user = profile_user
    THEN {p \in DOMAIN posts : posts[p].author = profile_user}
    ELSE {p \in DOMAIN posts :
            /\ posts[p].author = profile_user
            /\ posts[p].is_published
            /\ posts[p].category \in DOMAIN categories
            /\ categories[posts[p].category]
            /\ posts[p].pub_date <= now}

\* order_by('-pub_date'): every order the database may return, ties in any order.
order_by_pub_date_desc(S) ==
    {s \in [1..Cardinality(S) -> S] :
        /\ \A i, j \in 1..Cardinality(S) : i # j => s[i] # s[j]
        /\ \A i, j \in 1..Cardinality(S) :
              i < j => posts[s[i]].pub_date >= posts[s[j]].pub_date}

\* Paginator.num_pages: an empty list still has one (empty) page.
num_pages(count) ==
    IF count = 0 THEN 1 ELSE (count + PageSize - 1) \div PageSize

\* Paginator.get_page(): an absent page number is page 1, a number out of
\* range is the last page.
get_page_number(count, page_number) ==
    IF page_number = Null THEN 1
    ELSE IF page_number < 1 \/ page_number > num_pages(count)
         THEN num_pages(count)
         ELSE page_number

\* get_paginator(): the rows of the requested page.
get_paginator(page_number, queryset) ==
    LET n == get_page_number(Len(queryset), page_number)
        lo == (n - 1) * PageSize + 1
        hi == IF n * PageSize < Len(queryset) THEN n * PageSize ELSE Len(queryset)
    IN  {queryset[i] : i \in lo..hi}

----------------------------------------------------------------------------
\* The request just handled and its response.  queryset is the whole listing
\* the handler computed, page_obj the rows of the page it rendered, deleted the
\* rows a delete() collected and removed.
Response(view, user, method, target, status, queryset, page_obj) ==
    [view |-> view, user |-> user, method |-> method, target |-> target,
     status |-> status, queryset |-> queryset, page_obj |-> page_obj,
     deleted |-> {}]

Plain(view, user, method, target, status) ==
    Response(view, user, method, target, status, {}, {})

Deletion(view, user, method, target, status, gone_posts, gone_comments) ==
    [Plain(view, user, method, target, status) EXCEPT
        !.deleted = {<<"post", p>> : p \in gone_posts}
                    \cup {<<"comment", c>> : c \in gone_comments}]

\* The shape of the rows: a Post has its author, flag, date and the two
\* nullable references, a Comment its author, post and text, a Category its
\* flag.  (Titles, descriptions and created_at are read by no handler's test.)
TypeOK ==
    /\ users \subseteq UserIds
    /\ DOMAIN categories \subseteq CategoryIds
    /\ \A c \in DOMAIN categories : categories[c] \in BOOLEAN
    /\ locations \subseteq LocationIds
    /\ DOMAIN posts \subseteq 1..post_seq
    /\ \A p \in DOMAIN posts :
          posts[p] \in [author : UserIds, is_published : BOOLEAN, pub_date : Times,
                        category : CategoryIds \cup {Null},
                        location : LocationIds \cup {Null}]
    /\ DOMAIN comments \subseteq 1..comment_seq
    /\ \A c \in DOMAIN comments :
          comments[c] \in [author : UserIds, post : PostIds, text : Texts]
    /\ post_seq \in 0..MaxPosts
    /\ comment_seq \in 0..MaxComments
    /\ now \in Times

\* No request is being handled: the last response has been sent.
Idle == Plain("idle", AnonymousUser, "GET", Null, "ok")

\* A request is handled from start to end before the next one starts.
Ready == last = Idle

\* The tables after the users, one category and one location were created.
Init ==
    /\ users = UserIds
    /\ categories = [c \in {1} |-> TRUE]
    /\ locations = {1}
    /\ posts = << >>
    /\ comments = << >>
    /\ post_seq = 0
    /\ comment_seq = 0
    /\ now = 0
    /\ last = Idle

\* The same with every category and every location created.
InitCatalog ==
    /\ users = UserIds
    /\ categories = [c \in CategoryIds |-> TRUE]
    /\ locations = LocationIds
    /\ posts = << >>
    /\ comments = << >>
    /\ post_seq = 0
    /\ comment_seq = 0
    /\ now = 0
    /\ last = Idle

Remove(f, gone) == [x \in DOMAIN f \ gone |-> f[x]]

Insert(f, k, v) == [x \in DOMAIN f \cup {k} |-> IF x = k THEN v ELSE f[x]]

----------------------------------------------------------------------------
\* Read-only views.

IndexView(user, page_number) ==
    /\ Ready
    /\ \E s \in order_by_pub_date_desc(get_posts_with_comments) :
          last' = Response("index", user, "GET", Null, "ok",
                           get_posts_with_comments, get_paginator(page_number, s))
    /\ UNCHANGED <<store, post_seq, comment_seq, now>>

CategoryPostsView(user, category_slug, page_number) ==
    /\ Ready
    /\ IF category_slug \in DOMAIN categories /\ categories[category_slug]
       THEN LET qs == {p \in get_posts_with_comments :
                          posts[p].category = category_slug}
            IN  \E s \in order_by_pub_date_desc(qs) :
                   last' = Response("category", user, "GET", category_slug, "ok",
                                    qs, get_paginator(page_number, s))
       ELSE last' = Plain("category", user, "GET", category_slug, "not_found")
    /\ UNCHANGED <<store, post_seq, comment_seq, now>>

profile(user, username, page_number) ==
    /\ Ready
    /\ IF username \in users
       THEN LET qs == profile_posts(user, username)
            IN  \E s \in order_by_pub_date_desc(qs) :
                   last' = Response("profile", user, "GET", username, "ok",
                                    qs, get_paginator(page_number, s))
       ELSE last' = Plain("profile", user, "GET", username, "not_found")
    /\ UNCHANGED <<store, post_seq, comment_seq, now>>

PostDetailView_get(user, post_id) ==
    /\ Ready
    /\ IF get_object(user, post_id) = Null
       THEN last' = Plain("post_detail", user, "GET", post_id, "not_found")
       ELSE last' = Response("post_detail", user, "GET", post_id, "ok",
                             {get_object(user, post_id)}, {get_object(user, post_id)})
    /\ UNCHANGED <<store, post_seq, comment_seq, now>>

\* POST to the detail endpoint.  The route passes the identifier as the
\* keyword post_id (pk_url_kwarg = 'post_id'), and View.dispatch calls
\* handler(request, **kwargs); post(self, request) accepts no such keyword,
\* so the call raises TypeError before the body runs: a server error, and
\* nothing is saved, whatever the form holds.
PostDetailView_post(user, post_id, form) ==
    /\ Ready
    /\ last' = Plain("post_detail", user, "POST", post_id, "server_error")
    /\ UNCHANGED <<store, post_seq, comment_seq, now>>

----------------------------------------------------------------------------
\* Posts.

create_post(user, method, form) ==
    /\ Ready
    /\ IF user = AnonymousUser
       THEN /\ last' = Plain("create_post", user, method, Null, "redirect_login")
            /\ UNCHANGED <<posts, post_seq>>
       ELSE IF method = "POST" /\ is_valid(form)
       THEN /\ posts' = Insert(posts, post_seq + 1,
                               [author |-> user,
                                is_published |-> form.is_published,
                                pub_date |-> form.pub_date,
                                category |-> form.category,
                                location |-> form.location])
            /\ post_seq' = post_seq + 1
            /\ last' = Plain("create_post", user, method, post_seq + 1,
                             "redirect_profile")
       ELSE /\ last' = Plain("create_post", user, method, Null, "ok")
            /\ UNCHANGED <<posts, post_seq>>
    /\ UNCHANGED <<users, categories, locations, comments, comment_seq, now>>

edit_post(user, method, post_id, form) ==
    /\ Ready
    /\ IF user = AnonymousUser
       THEN /\ last' = Plain("edit_post", user, method, post_id, "redirect_login")
            /\ UNCHANGED posts
       ELSE IF post_id \notin DOMAIN posts
       THEN /\ last' = Plain("edit_post", user, method, post_id, "not_found")
            /\ UNCHANGED posts
       ELSE IF user # posts[post_id].author
       THEN /\ last' = Plain("edit_post", user, method, post_id, "redirect_detail")
            /\ UNCHANGED posts
       ELSE IF method = "POST" /\ is_valid(form)
       THEN /\ posts' = [posts EXCEPT ![post_id] =
                            [author |-> @.author,
                             is_published |-> form.is_published,
                             pub_date |-> form.pub_date,
                             category |-> form.category,
                             location |-> form.location]]
            /\ last' = Plain("edit_post", user, method, post_id, "redirect_detail")
       ELSE /\ last' = Plain("edit_post", user, method, post_id, "ok")
            /\ UNCHANGED posts
    /\ UNCHANGED <<users, categories, locations, comments, post_seq, comment_seq, now>>

\* Mutant: the post row goes and its comments stay.
CascadeDeletePost_keeps_comments(post_id) ==
    /\ posts' = Remove(posts, {post_id})
    /\ comments' = comments

\* Post.delete(): Comment.post is on_delete=CASCADE.
CascadeDeletePost(post_id) ==
    /\ posts' = Remove(posts, {post_id})
    /\ comments' = Remove(comments, {c \in DOMAIN comments : comments[c].post = post_id})

\* Mutant: the author's GET deletes at once, without the confirmation POST.
delete_post_on_get(user, method, post_id) ==
    /\ Ready
    /\ IF user = AnonymousUser
       THEN /\ last' = Plain("delete_post", user, method, post_id, "redirect_login")
            /\ UNCHANGED <<posts, comments>>
       ELSE IF post_id \notin DOMAIN posts
       THEN /\ last' = Plain("delete_post", user, method, post_id, "not_found")
            /\ UNCHANGED <<posts, comments>>
       ELSE IF user # posts[post_id].author
       THEN /\ last' = Plain("delete_post", user, method, post_id, "redirect_detail")
            /\ UNCHANGED <<posts, comments>>
       ELSE /\ CascadeDeletePost(post_id)
            /\ last' = Deletion("delete_post", user, method, post_id, "redirect_index",
                                DOMAIN posts \ DOMAIN posts',
                                DOMAIN comments \ DOMAIN comments')
    /\ UNCHANGED <<users, categories, locations, post_seq, comment_seq, now>>

delete_post(user, method, post_id) ==
    /\ Ready
    /\ IF user = AnonymousUser
       THEN /\ last' = Plain("delete_post", user, method, post_id, "redirect_login")
            /\ UNCHANGED <<posts, comments>>
       ELSE IF post_id \notin DOMAIN posts
       THEN /\ last' = Plain("delete_post", user, method, post_id, "not_found")
            /\ UNCHANGED <<posts, comments>>
       ELSE IF user # posts[post_id].author
       THEN /\ last' = Plain("delete_post", user, method, post_id, "redirect_detail")
            /\ UNCHANGED <<posts, comments>>
       ELSE IF method = "POST"
       THEN /\ CascadeDeletePost(post_id)
            /\ last' = Deletion("delete_post", user, method, post_id, "redirect_index",
                                DOMAIN posts \ DOMAIN posts',
                                DOMAIN comments \ DOMAIN comments')
       ELSE /\ last' = Plain("delete_post", user, method, post_id, "ok")
            /\ UNCHANGED <<posts, comments>>
    /\ UNCHANGED <<users, categories, locations, post_seq, comment_seq, now>>

----------------------------------------------------------------------------
\* Comments.

add_comment(user, post_id, form) ==
    /\ Ready
    /\ IF user = AnonymousUser
       THEN /\ last' = Plain("add_comment", user, "POST", post_id, "redirect_login")
            /\ UNCHANGED <<comments, comment_seq>>
       ELSE IF post_id \notin DOMAIN posts
       THEN /\ last' = Plain("add_comment", user, "POST", post_id, "not_found")
            /\ UNCHANGED <<comments, comment_seq>>
       ELSE IF form # Blank
       THEN /\ comments' = Insert(comments, comment_seq + 1,
                                  [author |-> user, post |-> post_id, text |-> form])
            /\ comment_seq' = comment_seq + 1
            /\ last' = Plain("add_comment", user, "POST", post_id, "redirect_detail")
       ELSE /\ last' = Plain("add_comment", user, "POST", post_id, "redirect_detail")
            /\ UNCHANGED <<comments, comment_seq>>
    /\ UNCHANGED <<users, categories, locations, posts, post_seq, now>>

\* Mutant: the author test is missing, any logged-in user edits the comment.
edit_comment_by_anyone(user, method, comment_id, form) ==
    /\ Ready
    /\ IF user = AnonymousUser
       THEN /\ last' = Plain("edit_comment", user, method, comment_id, "redirect_login")
            /\ UNCHANGED comments
       ELSE IF comment_id \notin DOMAIN comments
       THEN /\ last' = Plain("edit_comment", user, method, comment_id, "not_found")
            /\ UNCHANGED comments
       ELSE IF method = "POST" /\ form # Blank
       THEN /\ comments' = [comments EXCEPT ![comment_id].text = form]
            /\ last' = Plain("edit_comment", user, method, comment_id, "redirect_detail")
       ELSE /\ last' = Plain("edit_comment", user, method, comment_id, "ok")
            /\ UNCHANGED comments
    /\ UNCHANGED <<users, categories, locations, posts, post_seq, comment_seq, now>>

\* The comment is looked up by comment_id alone; the post_id of the URL is
\* only where the redirect goes, and is left out.
edit_comment(user, method, comment_id, form) ==
    /\ Ready
    /\ IF user = AnonymousUser
       THEN /\ last' = Plain("edit_comment", user, method, comment_id, "redirect_login")
            /\ UNCHANGED comments
       ELSE IF comment_id \notin DOMAIN comments
       THEN /\ last' = Plain("edit_comment", user, method, comment_id, "not_found")
            /\ UNCHANGED comments
       ELSE IF user # comments[comment_id].author
       THEN /\ last' = Plain("edit_comment", user, method, comment_id, "redirect_detail")
            /\ UNCHANGED comments
       ELSE IF method = "POST" /\ form # Blank
       THEN /\ comments' = [comments EXCEPT ![comment_id].text = form]
            /\ last' = Plain("edit_comment", user, method, comment_id, "redirect_detail")
       ELSE /\ last' = Plain("edit_comment", user, method, comment_id, "ok")
            /\ UNCHANGED comments
    /\ UNCHANGED <<users, categories, locations, posts, post_seq, comment_seq, now>>

delete_comment(user, method, comment_id) ==
    /\ Ready
    /\ IF user = AnonymousUser
       THEN /\ last' = Plain("delete_comment", user, method, comment_id, "redirect_login")
            /\ UNCHANGED comments
       ELSE IF comment_id \notin DOMAIN comments
       THEN /\ last' = Plain("delete_comment", user, method, comment_id, "not_found")
            /\ UNCHANGED comments
       ELSE IF user # comments[comment_id].author
       THEN /\ last' = Plain("delete_comment", user, method, comment_id, "redirect_detail")
            /\ UNCHANGED comments
       ELSE IF method = "POST"
       THEN /\ comments' = Remove(comments, {comment_id})
            /\ last' = Deletion("delete_comment", user, method, comment_id,
                                "redirect_detail", {}, {comment_id})
       ELSE /\ last' = Plain("delete_comment", user, method, comment_id, "ok")
            /\ UNCHANGED comments
    /\ UNCHANGED <<users, categories, locations, posts, post_seq, comment_seq, now>>

\* edit_profile(): saves the requester's own profile fields, none of which the
\* blog's rows hold.
edit_profile(user, method, valid) ==
    /\ Ready
    /\ IF user = AnonymousUser
       THEN last' = Plain("edit_profile", user, method, user, "redirect_login")
       ELSE IF method = "POST" /\ valid
       THEN last' = Plain("edit_profile", user, method, user, "redirect_profile")
       ELSE last' = Plain("edit_profile", user, method, user, "ok")
    /\ UNCHANGED <<store, post_seq, comment_seq, now>>

----------------------------------------------------------------------------
\* Deletions through the ORM (admin site), ruled by on_delete in models.py.

\* Post.author and Comment.author are CASCADE, and so is Comment.post: the
\* user's posts go, with every comment on them, and the user's comments.
DeleteUser(u) ==
    /\ Ready
    /\ u \in users
    /\ users' = users \ {u}
    /\ LET gone == {p \in DOMAIN posts : posts[p].author = u}
       IN  /\ posts' = Remove(posts, gone)
           /\ comments' = Remove(comments,
                 {c \in DOMAIN comments :
                     comments[c].author = u \/ comments[c].post \in gone})
    /\ last' = Deletion("admin_delete_user", AnonymousUser, "POST", u, "ok",
                        DOMAIN posts \ DOMAIN posts', DOMAIN comments \ DOMAIN comments')
    /\ UNCHANGED <<categories, locations, post_seq, comment_seq, now>>

\* Mutant: Post.category is CASCADE, the category's posts go with it.
DeleteCategory_cascade(c) ==
    /\ Ready
    /\ c \in DOMAIN categories
    /\ categories' = Remove(categories, {c})
    /\ posts' = Remove(posts, {p \in DOMAIN posts : posts[p].category = c})
    /\ last' = Plain("admin_delete_category", AnonymousUser, "POST", c, "ok")
    /\ UNCHANGED <<users, locations, comments, post_seq, comment_seq, now>>

\* Post.category is SET_NULL.
DeleteCategory(c) ==
    /\ Ready
    /\ c \in DOMAIN categories
    /\ categories' = Remove(categories, {c})
    /\ posts' = [p \in DOMAIN posts |->
                    IF posts[p].category = c
                    THEN [posts[p] EXCEPT !.category = Null] ELSE posts[p]]
    /\ last' = Plain("admin_delete_category", AnonymousUser, "POST", c, "ok")
    /\ UNCHANGED <<users, locations, comments, post_seq, comment_seq, now>>

\* Post.location is SET_NULL.
DeleteLocation(l) ==
    /\ Ready
    /\ l \in locations
    /\ locations' = locations \ {l}
    /\ posts' = [p \in DOMAIN posts |->
                    IF posts[p].location = l
                    THEN [posts[p] EXCEPT !.location = Null] ELSE posts[p]]
    /\ last' = Plain("admin_delete_location", AnonymousUser, "POST", l, "ok")
    /\ UNCHANGED <<users, categories, comments, post_seq, comment_seq, now>>

\* Staff set or clear a category's is_published flag.
SetCategoryPublished(c, flag) ==
    /\ Ready
    /\ c \in DOMAIN categories
    /\ categories[c] # flag
    /\ categories' = [categories EXCEPT ![c] = flag]
    /\ last' = Plain("admin_edit_category", AnonymousUser, "POST", c, "ok")
    /\ UNCHANGED <<users, locations, posts, comments, post_seq, comment_seq, now>>

\* timezone.now() moves on.
Tick ==
    /\ Ready
    /\ now < MaxTime
    /\ now' = now + 1
    /\ last' = Plain("tick", AnonymousUser, "GET", Null, "ok")
    /\ UNCHANGED <<store, post_seq, comment_seq>>

----------------------------------------------------------------------------
\* The response is sent.
Deliver ==
    /\ ~Ready
    /\ last' = Idle
    /\ UNCHANGED <<store, post_seq, comment_seq, now>>

Methods == {"GET", "POST"}

\* What reaches a form view: a GET, which binds no data (request.POST or
\* None), or a POST of data that validates or does not.
Submissions(valid, invalid) ==
    {<<"GET", invalid>>} \cup {<<"POST", f>> : f \in valid \cup {invalid}}

\* Auto-increment primary keys are never reused; the model stops creating
\* rows at the bound given and at MaxComments.
NewPostForms(bound, flags, dates) ==
    IF post_seq < bound THEN PostForms(flags, dates) ELSE {}

NewCommentForms(texts) ==
    IF comment_seq < MaxComments THEN CommentForms(texts) ELSE {}

\* Reading: the listings and the detail page, while authors write, schedule,
\* hide, show and delete their posts, categories are hidden and deleted, and
\* the clock moves.
NextView ==
    \/ \E u \in Requesters, n \in PageNumbers : IndexView(u, n)
    \/ \E u \in Requesters, c \in CategoryIds, n \in PageNumbers :
          CategoryPostsView(u, c, n)
    \/ \E u \in Requesters, name \in UserIds, n \in PageNumbers : profile(u, name, n)
    \/ \E u \in Requesters, p \in PostIds : PostDetailView_get(u, p)
    \/ \E u \in users, f \in NewPostForms(MaxPosts, BOOLEAN, Times) : create_post(u, "POST", f)
    \/ \E p \in DOMAIN posts, f \in PostForms(BOOLEAN, Times) :
          edit_post(posts[p].author, "POST", p, f)
    \/ \E p \in DOMAIN posts : delete_post(posts[p].author, "POST", p)
    \/ \E c \in CategoryIds : DeleteCategory(c)
    \/ \E c \in CategoryIds, flag \in BOOLEAN : SetCategoryPublished(c, flag)
    \/ Tick
    \/ Deliver

SpecView == Init /\ [][NextView]_vars

\* Writing: every request handler that changes rows, with posts dated now.
NextWrite ==
    \/ \E u \in Requesters, p \in PostIds, f \in CommentForms(Texts) \cup {Blank} :
          PostDetailView_post(u, p, f)
    \/ \E u \in users, f \in NewPostForms(MaxWritePosts, BOOLEAN, {now}) : create_post(u, "POST", f)
    \/ \E u \in Requesters, p \in PostIds,
          r \in Submissions(PostForms(BOOLEAN, {now}), Invalid) :
          edit_post(u, r[1], p, r[2])
    \/ \E u \in Requesters, m \in Methods, p \in PostIds : delete_post(u, m, p)
    \/ \E u \in Requesters, p \in PostIds, f \in NewCommentForms(Texts) \cup {Blank} :
          add_comment(u, p, f)
    \/ \E u \in Requesters, c \in CommentIds,
          r \in Submissions(CommentForms(Texts), Blank) :
          edit_comment(u, r[1], c, r[2])
    \/ \E u \in Requesters, m \in Methods, c \in CommentIds : delete_comment(u, m, c)
    \/ \E u \in Requesters, m \in Methods, v \in BOOLEAN : edit_profile(u, m, v)
    \/ Deliver

SpecWrite == Init /\ [][NextWrite]_vars

\* Creating and deleting: rows are created by their handlers and deleted by
\* their handlers and through the ORM, with published posts dated now and
\* one comment text.
NextDelete ==
    \/ \E u \in users, f \in NewPostForms(MaxPosts, {TRUE}, {now}) :
          create_post(u, "POST", f)
    \/ \E u \in users, p \in PostIds, f \in NewCommentForms({"a"}) :
          add_comment(u, p, f)
    \/ \E u \in users, p \in PostIds : delete_post(u, "POST", p)
    \/ \E u \in users, c \in CommentIds : delete_comment(u, "POST", c)
    \/ \E u \in UserIds : DeleteUser(u)
    \/ \E c \in CategoryIds : DeleteCategory(c)
    \/ \E l \in LocationIds : DeleteLocation(l)
    \/ Deliver

SpecDelete == Init /\ [][NextDelete]_vars

\* Deleting categories and locations under posts and comments, from two
\* categories and two locations.
NextSetNull ==
    \/ \E u \in users, f \in NewPostForms(MaxPosts, {TRUE}, {now}) :
          create_post(u, "POST", f)
    \/ \E u \in users, p \in PostIds, f \in NewCommentForms({"a"}) :
          add_comment(u, p, f)
    \/ \E c \in CategoryIds : DeleteCategory(c)
    \/ \E l \in LocationIds : DeleteLocation(l)
    \/ Deliver

SpecSetNull == InitCatalog /\ [][NextSetNull]_vars

----------------------------------------------------------------------------
\* Properties of the listings and the detail page (SpecView).

\* The publish predicate: the post's flag, its category's flag, its date.
PubliclyVisible(p) ==
    /\ posts[p].is_published
    /\ posts[p].category \in DOMAIN categories
    /\ categories[posts[p].category]
    /\ posts[p].pub_date <= now

\* The last response is a listing that was rendered.
IsListing == last.view \in {"index", "category", "profile"} /\ last.status = "ok"

\* The listing is not the requester's own profile.
IsPublicListing ==
    /\ IsListing
    /\ last.view = "profile" => last.user # last.target

\* The post belongs to what the listing lists.
InScope(p) ==
    CASE last.view = "index" -> TRUE
      [] last.view = "category" -> posts[p].category = last.target
      [] last.view = "profile" -> posts[p].author = last.target
      [] OTHER -> FALSE

\* The last response is the detail page of p.
IsDetailOf(p) == last.view = "post_detail" /\ last.method = "GET" /\ last.target = p

\* C1: whoever is not the author of a post (anonymous included) is shown the
\* post, in the index, a category listing, a profile listing or the detail
\* page, only if the post is published, its category is published and its
\* date has come; an unpublished post is never shown to them.
C1_NonAuthorSeesOnlyPublished ==
    \A p \in DOMAIN posts :
        /\ last.user # posts[p].author
        /\ \/ IsListing /\ p \in last.queryset \cup last.page_obj
           \/ IsDetailOf(p) /\ last.status = "ok"
        => PubliclyVisible(p)

\* A visitor has been shown an author's profile that holds an unpublished
\* post whose date has come, beside a post that is shown.
C1_Witness ==
    /\ last.view = "profile" /\ last.status = "ok" /\ last.user # last.target
    /\ \E p \in DOMAIN posts :
          /\ posts[p].author = last.target
          /\ ~posts[p].is_published
          /\ posts[p].pub_date <= now
          /\ p \notin last.queryset
    /\ last.page_obj # {}

\* C2: at every moment a post dated in the future is absent from the index,
\* the category listings and the profile listings shown to others, and a
\* post with both flags set whose date has come is in them; the clock alone
\* brings it in, with no write to the post.
C2_ListedWhenDue ==
    IsPublicListing =>
        \A p \in DOMAIN posts :
            /\ now < posts[p].pub_date => p \notin last.queryset \cup last.page_obj
            /\ PubliclyVisible(p) /\ InScope(p) => p \in last.queryset

C2_ClockBringsIn ==
    last'.view = "tick" =>
        /\ posts' = posts
        /\ get_posts_with_comments' =
              get_posts_with_comments \cup
              {p \in DOMAIN posts :
                  /\ posts[p].is_published
                  /\ posts[p].category \in DOMAIN categories
                  /\ categories[posts[p].category]
                  /\ now < posts[p].pub_date /\ posts[p].pub_date <= now'}

C2_ScheduledPublication == []C2_ListedWhenDue /\ [][C2_ClockBringsIn]_vars

\* The index is shown after the clock has moved, and holds a post dated after
\* the model's first moment.
C2_Witness ==
    /\ last.view = "index"
    /\ \E p \in last.queryset : posts[p].pub_date = now /\ now > 0

\* C3 as stated: a post is publicly visible iff it is published, its
\* category, if it has one, is published, and its date has come; so a
\* published, due post without a category is listed in the index and
\* returned by the detail page to a non-author.
VisibleIfAnyCategory(p) ==
    /\ posts[p].is_published
    /\ posts[p].category # Null => categories[posts[p].category]
    /\ posts[p].pub_date <= now

C3_Original ==
    \A p \in DOMAIN posts :
        /\ last.view = "index" => (p \in last.queryset <=> VisibleIfAnyCategory(p))
        /\ IsDetailOf(p) /\ last.user # posts[p].author
              => (last.status = "ok" <=> VisibleIfAnyCategory(p))

\* C3 amended: a post is publicly visible iff it is published, it has a
\* category and that category is published, and its date has come; a post
\* without a category is not publicly visible.
C3_PubliclyVisibleIff ==
    \A p \in DOMAIN posts :
        /\ last.view = "index" => (p \in last.queryset <=> PubliclyVisible(p))
        /\ IsDetailOf(p) /\ last.user # posts[p].author
              => (last.status = "ok" <=> PubliclyVisible(p))

\* A non-author asked for the detail page of a published, due post whose
\* category was deleted, and got "not found".
C3_Witness ==
    \E p \in DOMAIN posts :
        /\ IsDetailOf(p) /\ last.user # posts[p].author
        /\ posts[p].is_published /\ posts[p].pub_date <= now
        /\ posts[p].category = Null
        /\ last.status = "not_found"

\* C4: the author of a post is shown it in their own profile listing and gets
\* it from the detail page, whatever its flag, its category and its date.
\* The listing is what the pages hold; a listing of at most PageSize rows is
\* the page.
C4_AuthorSeesOwnPosts ==
    /\ last.view = "profile" /\ last.user = last.target /\ last.user # AnonymousUser
          => /\ last.status = "ok"
             /\ last.queryset = {p \in DOMAIN posts : posts[p].author = last.user}
             /\ last.page_obj \subseteq last.queryset
             /\ Cardinality(last.queryset) <= PageSize => last.page_obj = last.queryset
    /\ \A p \in DOMAIN posts :
          IsDetailOf(p) /\ last.user = posts[p].author
              => last.status = "ok" /\ last.queryset = {p}

\* The author got the detail page of their own post, which is not publicly
\* visible.
C4_Witness ==
    \E p \in DOMAIN posts :
        /\ IsDetailOf(p) /\ last.user = posts[p].author
        /\ ~PubliclyVisible(p)
        /\ last.status = "ok"

\* The author was shown their own profile, holding an unpublished post, a
\* post dated in the future and nothing else.
C4_ProfileWitness ==
    /\ last.view = "profile" /\ last.user = last.target
    /\ \E p, q \in last.page_obj : ~posts[p].is_published /\ posts[q].pub_date > now

----------------------------------------------------------------------------
\* Properties of the write handlers (SpecWrite).

\* The response a protected handler gives to who is not the author.
Refusal(user) == IF user = AnonymousUser THEN "redirect_login" ELSE "redirect_detail"

\* C5: an edit or delete request for a post or a comment by who is not its
\* author (another user, or nobody logged in) changes no row and is answered
\* by a redirect, to the detail page or to login; so a post is changed or
\* removed only by its author's request, and a comment only by its author's
\* request or with its post.
C5_Step ==
    /\ /\ last'.view \in {"edit_post", "delete_post"}
       /\ last'.target \in DOMAIN posts
       /\ last'.user # posts[last'.target].author
       => store' = store /\ last'.status = Refusal(last'.user)
    /\ /\ last'.view \in {"edit_comment", "delete_comment"}
       /\ last'.target \in DOMAIN comments
       /\ last'.user # comments[last'.target].author
       => store' = store /\ last'.status = Refusal(last'.user)
    /\ \A p \in DOMAIN posts :
          (p \notin DOMAIN posts' \/ posts'[p] # posts[p])
          => /\ last'.view \in {"edit_post", "delete_post"}
             /\ last'.target = p
             /\ last'.user = posts[p].author
    /\ \A c \in DOMAIN comments :
          (c \notin DOMAIN comments' \/ comments'[c] # comments[c])
          => \/ /\ last'.view \in {"edit_comment", "delete_comment"}
                /\ last'.target = c
                /\ last'.user = comments[c].author
             \/ /\ last'.view = "delete_post"
                /\ last'.target = comments[c].post
                /\ last'.user = posts[comments[c].post].author
                /\ c \notin DOMAIN comments'

C5_OnlyAuthorWrites == [][C5_Step]_vars

\* Another logged-in user posted to the edit endpoint of a comment and was
\* redirected.
C5_Witness ==
    /\ last.view = "edit_comment" /\ last.method = "POST"
    /\ last.target \in DOMAIN comments
    /\ last.user # AnonymousUser
    /\ last.user # comments[last.target].author
    /\ last.status = "redirect_detail"

\* C8: a GET to the delete endpoint of a post or comment, even by its author,
\* renders the confirmation form and changes no row; the request removes the
\* resource only when it is a POST by the author, and then the resource is
\* gone.
C8_Step ==
    /\ last'.view \in {"delete_post", "delete_comment"} /\ last'.method = "GET"
       => store' = store
    /\ \A p \in DOMAIN posts :
          last'.view = "delete_post" /\ last'.target = p
          => /\ last'.method = "GET" /\ last'.user = posts[p].author
                => last'.status = "ok"
             /\ p \notin DOMAIN posts'
                <=> last'.method = "POST" /\ last'.user = posts[p].author
    /\ \A c \in DOMAIN comments :
          last'.view = "delete_comment" /\ last'.target = c
          => /\ last'.method = "GET" /\ last'.user = comments[c].author
                => last'.status = "ok"
             /\ c \notin DOMAIN comments'
                <=> last'.method = "POST" /\ last'.user = comments[c].author

C8_DeleteNeedsConfirmation == [][C8_Step]_vars

\* The author of a post that has a comment got the confirmation form of the
\* post's delete endpoint.
C8_Witness ==
    /\ last.view = "delete_post" /\ last.method = "GET" /\ last.status = "ok"
    /\ last.target \in DOMAIN posts
    /\ last.user = posts[last.target].author
    /\ \E c \in DOMAIN comments : comments[c].post = last.target

\* The author's POST removed the comment.
C8_DeletedWitness ==
    /\ last.view = "delete_comment" /\ last.method = "POST"
    /\ <<"comment", last.target>> \in last.deleted

\* What a comment submission is to do: one new comment by the requester on
\* the post, nothing else changed, and a redirect to the detail page.
CommentAdded(user, post_id, text) ==
    /\ \E c \in DOMAIN comments' \ DOMAIN comments :
          /\ DOMAIN comments' = DOMAIN comments \cup {c}
          /\ comments'[c] = [author |-> user, post |-> post_id, text |-> text]
    /\ \A d \in DOMAIN comments : comments'[d] = comments[d]
    /\ <<users, categories, locations, posts>>' = <<users, categories, locations, posts>>
    /\ last'.status = "redirect_detail"

\* C9: a comment submission with valid text, POSTed to the detail endpoint of
\* a post the requester may see or to the add-comment endpoint, adds exactly
\* one comment by the requester on that post and redirects to the detail
\* page; a submission whose text fails validation changes no row.
C9_Step ==
    \A u \in users, p \in DOMAIN posts :
        /\ \A t \in Texts :
              \/ PostDetailView_post(u, p, t) /\ get_object(u, p) # Null
              \/ add_comment(u, p, t)
              => CommentAdded(u, p, t)
        /\ PostDetailView_post(u, p, Blank) \/ add_comment(u, p, Blank)
              => store' = store

C9_CommentSubmission == [][C9_Step]_vars

\* C10: a comment is created only on a post its author may view at that
\* moment: their own post, or a publicly visible one.
C10_Step ==
    \A c \in DOMAIN comments' \ DOMAIN comments :
        \/ comments'[c].author = posts[comments'[c].post].author
        \/ PubliclyVisible(comments'[c].post)

C10_CommentOnlyOnViewable == [][C10_Step]_vars

----------------------------------------------------------------------------
\* Properties of deletion (SpecDelete, SpecSetNull).

\* Every comment has its post and its author, every post its author.
ReferentialIntegrity ==
    /\ \A c \in DOMAIN comments :
          comments[c].post \in DOMAIN posts /\ comments[c].author \in users
    /\ \A p \in DOMAIN posts : posts[p].author \in users

\* C6: deleting a post removes every comment on it, deleting a user removes
\* every post and comment of that user; after any creations and deletions
\* every comment has an existing post and author and every post an existing
\* author.
C6_Step ==
    /\ last'.view = "delete_post" /\ last'.status = "redirect_index"
       => /\ last'.target \notin DOMAIN posts'
          /\ \A c \in DOMAIN comments :
                comments[c].post = last'.target => c \notin DOMAIN comments'
    /\ last'.view = "admin_delete_user"
       => /\ last'.target \notin users'
          /\ \A p \in DOMAIN posts :
                posts[p].author = last'.target => p \notin DOMAIN posts'
          /\ \A c \in DOMAIN comments :
                comments[c].author = last'.target => c \notin DOMAIN comments'

C6_CascadeDelete == []ReferentialIntegrity /\ [][C6_Step]_vars

\* The author deleted a post, and a comment went with it.
C6_Witness ==
    /\ last.view = "delete_post"
    /\ <<"post", last.target>> \in last.deleted
    /\ \E c \in CommentIds : <<"comment", c>> \in last.deleted

\* A user was deleted, and a post and a comment went with the user.
C6_UserWitness ==
    /\ last.view = "admin_delete_user"
    /\ \E p \in PostIds : <<"post", p>> \in last.deleted
    /\ \E c \in CommentIds : <<"comment", c>> \in last.deleted

\* C7: deleting a category or a location deletes no post: the posts that
\* referred to it are still there with that reference null and every other
\* field as it was, every other post is as it was, and so are the comments.
C7_Step ==
    /\ last'.view = "admin_delete_category"
       => /\ DOMAIN posts' = DOMAIN posts
          /\ \A p \in DOMAIN posts :
                posts'[p] = IF posts[p].category = last'.target
                            THEN [posts[p] EXCEPT !.category = Null]
                            ELSE posts[p]
          /\ comments' = comments
    /\ last'.view = "admin_delete_location"
       => /\ DOMAIN posts' = DOMAIN posts
          /\ \A p \in DOMAIN posts :
                posts'[p] = IF posts[p].location = last'.target
                            THEN [posts[p] EXCEPT !.location = Null]
                            ELSE posts[p]
          /\ comments' = comments

C7_SetNullOnDelete == [][C7_Step]_vars

\* A category was deleted; a post that has a comment is still there, without
\* a category and with its location, beside a post of the other category.
C7_Witness ==
    /\ last.view = "admin_delete_category"
    /\ \E p, q \in DOMAIN posts :
          /\ posts[p].category = Null
          /\ posts[p].location # Null
          /\ \E c \in DOMAIN comments : comments[c].post = p
          /\ posts[q].category \in DOMAIN categories

\* A location was deleted; its post is still there without a location,
\* beside a post of the other location.
C7_LocationWitness ==
    /\ last.view = "admin_delete_location"
    /\ \E p, q \in DOMAIN posts :
          /\ posts[p].location = Null
          /\ posts[p].category # Null
          /\ posts[q].location \in locations

====
